---- MODULE Spec2Model ----
(***************************************************************************)
(* Messaging app of Django-signals_orm-0x04: the Message, MessageHistory   *)
(* and Notification tables, the Python Message instance a caller holds,    *)
(* Message.save with its pre_save / post_save receivers, user deletion     *)
(* with its cascades, and the thread queries.                              *)
(* With it, each on variables of its own: the unread manager and the      *)
(* mark_thread_as_read view, RestrictAccessByTimeMiddleware of             *)
(* Django-Middleware-0x03, retry_on_failure of python-decorators-0x01 and  *)
(* lazy_paginate of python-generators-0x00.                                *)
(*                                                                         *)
(* Abstractions: datetimes are "NULL" or "datetime" (timezone.now() is     *)
(* some non-null value); a message's text is one of Contents; fields no    *)
(* property reads (timestamp, read_at, titles, edit_reason) are left out.  *)
(***************************************************************************)
EXTENDS Integers, Sequences, FiniteSets, Bags, TLC

\* ---------------------------------------------------------------- bounds
\* Rows the Message table may receive in the edit/notification model.
MaxMessages == 2
\* Rows the Message table may receive in the thread-query model.
MaxThreadMessages == 6
\* Rows the Message table may receive in the re-parenting model.
MaxReparentMessages == 3
\* Cap on thread_depth (a PositiveIntegerField) in the re-parenting model.
MaxDepth == 3
\* Cap on edit_count (a PositiveIntegerField) and on MessageHistory rows.
MaxEdits == 2

\* auth.User rows present after set-up, and the texts a message may carry.
Users == {1, 2}
Contents == {"a", "b"}
\* The text every message is created with (later edits pick any of Contents).
InitialContent == "a"

\* A null foreign key (parent_message = None, Notification.message = None)
\* and an unsaved instance's pk.
Null == 0

VARIABLES
    users,          \* ids of the auth.User rows
    msg,            \* Message table: id -> row
    history,        \* MessageHistory table, in creation order
    notifications,  \* Notification table, a bag of rows
    nextId,         \* next AutoField value of the Message table
    inst,           \* the Message instance the caller holds, or NoInstance
    trail,          \* contents replaced by the saves made through inst
    last,           \* the last operation: op, the pk (or user) it was on, and
                    \* hit: a save found the content changed / a user
                    \* deletion removed Message and MessageHistory rows
    result,         \* rows returned by the last thread query, or what
                    \* the last manager or view call was given and returned
    mw,             \* Django-Middleware-0x03: the last request handled by
                    \* RestrictAccessByTimeMiddleware and its outcome
    retry,          \* python-decorators-0x01: the running call of a function
                    \* wrapped by retry_on_failure
    table,          \* python-generators-0x00: rows of user_data, in the
                    \* order SELECT * scans them
    pager           \* python-generators-0x00: the lazy_paginate generator

messaging == <<users, msg, history, notifications, nextId, inst, trail, last,
               result>>
scripts == <<mw, retry, table, pager>>
vars == <<messaging, scripts>>

NoInstance == [pk |-> -1]
NoResult == [op |-> "none"]
NoRequest == [response |-> "none"]
NoCall == [phase |-> "idle"]
NoGenerator == [phase |-> "none"]

\* ------------------------------------------------------------- the tables

\* A Message row as Message.objects.get(pk=id) builds the instance: the
\* related parent object is not fetched yet (pcache = -1).
FromDb(id) ==
    [pk |-> id, sender |-> msg[id].sender, receiver |-> msg[id].receiver,
     content |-> msg[id].content, is_read |-> msg[id].is_read,
     edited |-> msg[id].edited, last_edited |-> msg[id].last_edited,
     edit_count |-> msg[id].edit_count, parent |-> msg[id].parent,
     pcache |-> -1,
     is_thread_starter |-> msg[id].is_thread_starter,
     thread_depth |-> msg[id].thread_depth]

\* The row an instance is written as by a full save.
Row(i) ==
    [sender |-> i.sender, receiver |-> i.receiver, content |-> i.content,
     is_read |-> i.is_read, edited |-> i.edited,
     last_edited |-> i.last_edited, edit_count |-> i.edit_count,
     parent |-> i.parent, is_thread_starter |-> i.is_thread_starter,
     thread_depth |-> i.thread_depth]

\* Message(sender=, receiver=, content=, parent_message=) with the field
\* defaults; the parent object passed in is cached with its thread_depth.
NewInstance(s, r, c, p) ==
    [pk |-> Null, sender |-> s, receiver |-> r, content |-> c,
     is_read |-> FALSE, edited |-> FALSE, last_edited |-> "NULL",
     edit_count |-> 0, parent |-> p,
     pcache |-> IF p = Null THEN -1 ELSE msg[p].thread_depth,
     is_thread_starter |-> FALSE, thread_depth |-> 0]

Stored(i) == i.pk # Null /\ i.pk \in DOMAIN msg

\* original.content != instance.content, for an instance that has a row.
ContentDiffers(i) == Stored(i) /\ msg[i.pk].content # i.content

\* ---------------------------------------------------------- Message.save

\* self.parent_message can be read: it is None, cached, or its row exists.
ParentReadable(i) ==
    i.parent = Null \/ i.pcache >= 0 \/ i.parent \in DOMAIN msg

\* thread_depth of the object self.parent_message yields: the cached
\* object's, else the row fetched now.
ParentDepth(i) ==
    IF i.pcache >= 0 THEN i.pcache ELSE msg[i.parent].thread_depth

\* "Handle threading logic": the instance after the first if/else of save.
ThreadingApplied(i) ==
    IF i.parent # Null
    THEN [i EXCEPT !.is_thread_starter = FALSE,
                   !.thread_depth = ParentDepth(i) + 1,
                   !.pcache = ParentDepth(i)]
    ELSE [i EXCEPT !.is_thread_starter = TRUE, !.thread_depth = 0]

\* "Handle edit tracking": the instance after the second block of save.
EditTracked(i) ==
    IF ContentDiffers(i)
    THEN [i EXCEPT !.edited = TRUE, !.last_edited = "datetime",
                   !.edit_count = @ + 1]
    ELSE i

\* Mutant: the record keeps the new content instead of the replaced one.
HistoryRecord_NewContent(i) ==
    [message |-> i.pk, old_content |-> i.content, edited_by |-> i.sender]

\* The MessageHistory row log_message_edit creates.
HistoryRecord(i) ==
    [message |-> i.pk, old_content |-> msg[i.pk].content,
     edited_by |-> i.sender]

\* Mutant: the edit notification goes to the editor, not the receiver.
EditNotification_ToSender(i) ==
    [user |-> i.sender, message |-> i.pk, notification_type |-> "edit"]

\* The Notification row log_message_edit creates.
EditNotification(i) ==
    [user |-> i.receiver, message |-> i.pk, notification_type |-> "edit"]

\* The Notification row create_message_notification creates.
MessageNotification(i) ==
    [user |-> i.receiver, message |-> i.pk, notification_type |-> "message"]

\* The Notification row send_welcome_notification creates for a new user.
WelcomeNotification(u) ==
    [user |-> u, message |-> Null, notification_type |-> "system"]

\* pre_save receiver log_message_edit: the two tables after it ran.
HistoryAfterPreSave(i) ==
    IF ContentDiffers(i) THEN Append(history, HistoryRecord(i)) ELSE history

NotificationsAfterPreSave(i) ==
    IF ContentDiffers(i)
    THEN notifications (+) SetToBag({EditNotification(i)})
    ELSE notifications

\* Mutant: the receiver does not test `created`.
NotificationsAfterPostSave_Always(n, i, created) ==
    n (+) SetToBag({[user |-> i.receiver, message |-> i.pk,
                     notification_type |-> "message"]})

\* post_save receiver create_message_notification, for the saved instance.
NotificationsAfterPostSave(n, i, created) ==
    IF created THEN n (+) SetToBag({MessageNotification(i)}) ELSE n

\* The row's foreign keys point at existing rows (checked by the database).
FkOk(i) ==
    /\ i.sender \in users
    /\ i.receiver \in users
    /\ i.parent = Null \/ i.parent \in DOMAIN msg

\* instance.save(update_fields=uf) for instance i, uf "all" (no
\* update_fields) or "read" (['is_read', 'read_at']): Message.save, the
\* pre_save receiver, the write, the post_save receiver.
SaveInstance(i, uf) ==
    LET j == EditTracked(ThreadingApplied(i)) IN
    CASE i.pk = Null ->
           \* INSERT of a new row
           LET k == [j EXCEPT !.pk = nextId] IN
           /\ msg' = msg @@ (nextId :> Row(k))
           /\ nextId' = nextId + 1
           /\ history' = history
           /\ notifications' = NotificationsAfterPostSave(notifications, k, TRUE)
           /\ inst' = k
      [] Stored(i) /\ uf = "all" ->
           /\ msg' = [msg EXCEPT ![i.pk] = Row(j)]
           /\ history' = HistoryAfterPreSave(i)
           /\ notifications' =
                  NotificationsAfterPostSave(NotificationsAfterPreSave(i), j, FALSE)
           /\ inst' = j
           /\ UNCHANGED nextId
      [] Stored(i) /\ uf = "read" ->
           \* UPDATE of the named columns only
           /\ msg' = [msg EXCEPT ![i.pk].is_read = j.is_read]
           /\ history' = HistoryAfterPreSave(i)
           /\ notifications' =
                  NotificationsAfterPostSave(NotificationsAfterPreSave(i), j, FALSE)
           /\ inst' = j
           /\ UNCHANGED nextId
      [] i.pk # Null /\ ~Stored(i) /\ uf = "all" /\ FkOk(i) ->
           \* Message.DoesNotExist: pass; UPDATE matches no row, so INSERT
           /\ msg' = msg @@ (i.pk :> Row(j))
           /\ notifications' = NotificationsAfterPostSave(notifications, j, TRUE)
           /\ inst' = j
           /\ UNCHANGED <<history, nextId>>
      [] OTHER ->
           \* IntegrityError / DatabaseError: nothing is written
           /\ inst' = j
           /\ UNCHANGED <<msg, history, notifications, nextId>>

\* ------------------------------------------------------------- deletion

\* The three tables as one value, for operations that run in sequence.
Db == [msg |-> msg, history |-> history, notifications |-> notifications]

BagKeep(B, Keep(_)) == [r \in {x \in DOMAIN B : Keep(x)} |-> B[r]]

\* parent_message on_delete=CASCADE: ids together with all their replies.
RECURSIVE WithReplies(_, _)
WithReplies(m, ids) ==
    LET more == {x \in DOMAIN m : m[x].parent \in ids} \ ids IN
    IF more = {} THEN ids ELSE WithReplies(m, ids \cup more)

\* Mutant: Notification.message does not cascade.
DeleteMessages_KeepNotifications(db, ids) ==
    LET gone == WithReplies(db.msg, ids) IN
    [msg |-> [x \in DOMAIN db.msg \ gone |-> db.msg[x]],
     history |-> SelectSeq(db.history, LAMBDA h : h.message \notin gone),
     notifications |-> db.notifications]

\* Deleting Message rows: their replies, their MessageHistory rows and the
\* Notification rows pointing at them go with them (on_delete=CASCADE).
DeleteMessages(db, ids) ==
    LET gone == WithReplies(db.msg, ids) IN
    [msg |-> [x \in DOMAIN db.msg \ gone |-> db.msg[x]],
     history |-> SelectSeq(db.history, LAMBDA h : h.message \notin gone),
     notifications |-> BagKeep(db.notifications,
                               LAMBDA n : n.message \notin gone)]

SentBy(db, u) == {x \in DOMAIN db.msg : db.msg[x].sender = u}
ReceivedBy(db, u) == {x \in DOMAIN db.msg : db.msg[x].receiver = u}

\* user.delete(): the rows the collector removes with the User row, by the
\* on_delete=CASCADE foreign keys sender, receiver, user and edited_by.
UserCascade(db, u) ==
    LET d == DeleteMessages(db, SentBy(db, u) \cup ReceivedBy(db, u)) IN
    [msg |-> d.msg,
     history |-> SelectSeq(d.history, LAMBDA h : h.edited_by # u),
     notifications |-> BagKeep(d.notifications, LAMBDA n : n.user # u)]

\* post_delete receiver cleanup_user_data, statement by statement.
CleanupUserData(db, u) ==
    LET d1 == DeleteMessages(db, SentBy(db, u))
        d2 == DeleteMessages(d1, ReceivedBy(d1, u))
        d3 == [d2 EXCEPT !.notifications =
                  BagKeep(@, LAMBDA n : n.user # u)]
        d4 == [d3 EXCEPT !.history =
                  SelectSeq(@, LAMBDA h : h.edited_by # u)]
        related == SentBy(d4, u) \cup ReceivedBy(d4, u)
    IN  [d4 EXCEPT !.notifications =
            BagKeep(@, LAMBDA n : n.message \notin related)]

\* The tables after user.delete() and its post_delete receiver.
UserDeleted(db, u) == CleanupUserData(UserCascade(db, u), u)

\* --------------------------------------------------------- thread queries

\* Number of parent_message hops the filter of get_all_replies spells out.
ReplyLookupDepth == 4

\* The row reached from row id by k parent_message joins, Null when a
\* join finds no row (LEFT OUTER JOIN on a null parent_message_id).
RECURSIVE ParentJoin(_, _)
ParentJoin(id, k) ==
    IF k = 0 THEN id
    ELSE IF id = Null \/ id \notin DOMAIN msg THEN Null
    ELSE ParentJoin(msg[id].parent, k - 1)

\* Message.get_all_replies(): ids of the rows the Q(...) | Q(...) filter keeps.
get_all_replies(id) ==
    {m \in DOMAIN msg : \E k \in 1..ReplyLookupDepth : ParentJoin(m, k) = id}

\* Message.reply_count
reply_count(id) == Cardinality(get_all_replies(id))

\* Mutant: the recursion stops after the hops get_all_replies spells out.
ThreadTreeFrom_Limited(rows) ==
    LET F[k \in 0..ReplyLookupDepth] ==
            IF k = 0 THEN rows
            ELSE UNION {{[id |-> m, level |-> r.level + 1,
                          path |-> Append(r.path, m)] :
                            m \in {x \in DOMAIN msg : msg[x].parent = r.id}} :
                        r \in F[k - 1]}
    IN  UNION {F[k] : k \in 0..ReplyLookupDepth}

\* One round of the recursive member of thread_tree: the rows m joined to
\* the rows tt of the previous round ON m.parent_message_id = tt.id.
ThreadTreeJoin(rows) ==
    UNION {{[id |-> m, level |-> r.level + 1, path |-> Append(r.path, m)] :
               m \in {x \in DOMAIN msg : msg[x].parent = r.id}} : r \in rows}

\* WITH RECURSIVE ... UNION ALL: the rows of a round and of all later ones.
RECURSIVE ThreadTreeFrom(_)
ThreadTreeFrom(rows) ==
    IF rows = {} THEN {} ELSE rows \cup ThreadTreeFrom(ThreadTreeJoin(rows))

\* Message.get_thread_tree(root_message_id): the rows returned (columns id,
\* level and path; path tells apart rows that UNION ALL keeps apart).
get_thread_tree(root) ==
    ThreadTreeFrom({[id |-> m, level |-> 0, path |-> <<m>>] :
                       m \in {x \in DOMAIN msg : x = root}})

\* -------------------------------------------------------- unread messages

\* Rows the Message table may receive in the unread-message model.
MaxUnreadMessages == 3

\* Default max_depth of Message.get_thread_messages_optimized.
ThreadMessagesMaxDepth == 10

\* The message_ids argument of the manager: None when left out, else a
\* list, kept as the set of its ids (it is only used in id__in and tested
\* for truth).
NoMessageIds == [given |-> FALSE, ids |-> {}]
MessageIds(ids) == [given |-> TRUE, ids |-> ids]

\* Python's truth value of message_ids: None and the empty list are false.
Truthy(message_ids) == message_ids.given /\ message_ids.ids # {}

\* UnreadMessagesManager.for_user(user): filter(receiver=user, is_read=False).
for_user(u) == {x \in DOMAIN msg : msg[x].receiver = u /\ ~msg[x].is_read}

\* UnreadMessagesManager.mark_as_read(user, message_ids): the rows the
\* queryset holds when update(is_read=True) runs on it.
UnreadQueryset(u, message_ids) ==
    IF Truthy(message_ids)
    THEN {x \in for_user(u) : x \in message_ids.ids}
    ELSE for_user(u)

\* queryset.update(is_read=True): the table afterwards (no save(), no
\* signal) and the number of rows matched, which update() returns.
mark_as_read(u, message_ids) ==
    LET qs == UnreadQueryset(u, message_ids) IN
    [msg |-> [x \in DOMAIN msg |->
                 IF x \in qs THEN [msg[x] EXCEPT !.is_read = TRUE] ELSE msg[x]],
     count |-> Cardinality(qs)]

\* Message.get_thread_messages_optimized(thread_root_id): ids of the rows
\* kept by Q(id=root) | Q(parent_message__parent_message_id=root) | ... ,
\* the lookups of depth 2 to max_depth (current_filter, the depth-1 lookup,
\* is built and never or-ed in).
get_thread_messages_optimized(root) ==
    {x \in DOMAIN msg :
        \/ x = root
        \/ \E depth \in 2..ThreadMessagesMaxDepth : ParentJoin(x, depth) = root}

\* The view mark_thread_as_read(request, thread_root_id) for an
\* authenticated request.user u: the table afterwards and the response.
mark_thread_as_read(u, method, root) ==
    IF root \notin DOMAIN msg
    THEN [msg |-> msg, response |-> "404"]
    ELSE IF u \notin {msg[root].sender, msg[root].receiver}
    THEN [msg |-> msg, response |-> "redirect unread_messages"]
    ELSE IF method = "POST"
    THEN LET message_ids ==
                 {x \in get_thread_messages_optimized(root) :
                     ~msg[x].is_read /\ msg[x].receiver = u}
         IN  [msg |-> mark_as_read(u, MessageIds(message_ids)).msg,
              response |-> "redirect message_thread"]
    ELSE [msg |-> msg, response |-> "redirect message_thread"]

\* ------------------------------------------- RestrictAccessByTimeMiddleware

\* A datetime.time: hour, minute, and rest, which is 0 when second and
\* microsecond are both 0 and 1 for any later instant of the minute.
\* Times are ordered as Python orders them, field by field.
Time(h, m) == [hour |-> h, minute |-> m, rest |-> 0]
Times == [hour : 0..23, minute : 0..59, rest : {0, 1}]
TimeLE(a, b) ==
    \/ a.hour < b.hour
    \/ a.hour = b.hour /\ a.minute < b.minute
    \/ a.hour = b.hour /\ a.minute = b.minute /\ a.rest <= b.rest

\* A request path, as the segments between its slashes: "/chats/1/" is
\* <<"chats", "1", "">> and "/chats" is <<"chats">>.
Paths ==
    {<<"api", "chats", "">>, <<"api", "chats", "conversations", "">>,
     <<"chats", "">>, <<"chats", "1", "">>,
     <<"api", "chats">>, <<"chats">>, <<"chatsx", "">>,
     <<"api", "users", "">>, <<"">>}

\* path.startswith(prefix) for a prefix that ends with a slash, dir being
\* the segments of the prefix before that slash.
StartsWithDir(path, dir) ==
    Len(path) > Len(dir) /\ SubSeq(path, 1, Len(dir)) = dir

restricted_start == Time(21, 0)
restricted_end == Time(6, 0)

\* RestrictAccessByTimeMiddleware._is_restricted_time(current_time)
_is_restricted_time(current_time) ==
    IF TimeLE(restricted_start, restricted_end)
    THEN TimeLE(restricted_start, current_time)
         /\ TimeLE(current_time, restricted_end)
    ELSE TimeLE(restricted_start, current_time)
         \/ TimeLE(current_time, restricted_end)

is_chat_endpoint(path) ==
    StartsWithDir(path, <<"api", "chats">>) \/ StartsWithDir(path, <<"chats">>)

\* RestrictAccessByTimeMiddleware.__call__(request) at server time
\* current_time: the response, and whether get_response was called.
RestrictAccessByTime(path, current_time) ==
    IF is_chat_endpoint(path) /\ _is_restricted_time(current_time)
    THEN [response |-> "403", forwarded |-> FALSE]
    ELSE [response |-> "get_response", forwarded |-> TRUE]

\* ---------------------------------------------------------- retry_on_failure

\* Largest retries argument tried.
MaxRetries == 3

\* The delay arguments tried, in seconds.
Delays == {-1, 0, 2}

\* What one invocation of the wrapped function does: it returns one of
\* Returns or raises one of Raises; Retriable are the exceptions the first
\* except clause catches.
Returns == {"rows1", "rows2"}
Retriable == {"OperationalError", "DatabaseError"}
Raises == Retriable \cup {"ValueError"}

\* wrapper(*args, **kwargs) up to the loop: the locals of a fresh call.
\* current_delay is the fraction num / den.
NewCall(retries, delay) ==
    [phase |-> "loop", retries |-> retries, delay |-> delay, attempt |-> 0,
     current_delay |-> [num |-> delay, den |-> 1],
     last_exception |-> "None", calls |-> <<>>, out |-> "None"]

\* Mutant: the last attempt is taken to be the one before it.
LastAttempt_Early(r) == r.attempt + 1 >= r.retries

\* if attempt == retries
LastAttempt(r) == r.attempt = r.retries

\* time.sleep(secs) raises ValueError for a negative secs.
Sleepable(secs) == secs.num >= 0

\* current_delay *= 1.5
Backoff(secs) == [num |-> secs.num * 3, den |-> secs.den * 2]

\* One pass of the for loop, the function doing o in it: up to the return,
\* the raise after the break, the raise of a non-retriable exception, or
\* the call of time.sleep.
Attempt(r, o) ==
    LET called == [r EXCEPT !.calls = Append(@, o)] IN
    IF o \in Returns
    THEN [called EXCEPT !.phase = "returned", !.out = o]
    ELSE IF o \in Retriable
    THEN LET caught == [called EXCEPT !.last_exception = o] IN
         IF LastAttempt(r)
         THEN [caught EXCEPT !.phase = "raised", !.out = caught.last_exception]
         ELSE IF Sleepable(r.current_delay)
         THEN [caught EXCEPT !.phase = "sleeping"]
         ELSE [caught EXCEPT !.phase = "raised", !.out = "ValueError (sleep)"]
    ELSE [called EXCEPT !.phase = "raised", !.out = o]

\* time.sleep returns: the delay grows and the loop goes on.
Slept(r) ==
    [r EXCEPT !.phase = "loop", !.current_delay = Backoff(@),
              !.attempt = @ + 1]

\* ------------------------------------------------------------- lazy_paginate

\* Most rows user_data holds, and the largest page_size tried.
MaxRows == 8
MaxPageSize == 4

\* paginate_users(page_size, offset):
\* SELECT * FROM user_data LIMIT page_size OFFSET offset.
paginate_users(page_size, offset) ==
    [j \in 1..(IF Len(table) - offset < page_size
               THEN Len(table) - offset ELSE page_size) |->
        table[offset + j]]

\* lazy_paginate(page_size) was called: a generator whose body has not
\* begun. calls are the offsets paginate_users was called with, yielded the
\* pages handed to the consumer.
NewGenerator(page_size) ==
    [phase |-> "created", page_size |-> page_size, offset |-> 0,
     calls |-> <<>>, yielded |-> <<>>]

\* Mutant: the offset moves on by one row.
NextOffset_OneRow(g) ==
    IF g.phase = "created" THEN 0 ELSE g.offset + 1

\* offset = 0 when the body begins; offset += page_size after a yield.
NextOffset(g) ==
    IF g.phase = "created" THEN 0 ELSE g.offset + g.page_size

\* next(generator): the body runs from where it stands to the next yield,
\* or to the break at an empty page.
Resume(g) ==
    LET offset == NextOffset(g)
        page == paginate_users(g.page_size, offset)
        fetched == [g EXCEPT !.offset = offset, !.calls = Append(@, offset)]
    IN  IF page = <<>>
        THEN [fetched EXCEPT !.phase = "done"]
        ELSE [fetched EXCEPT !.phase = "suspended",
                             !.yielded = Append(@, page)]

\* --------------------------------------------------------------- actions

\* The tables after set-up: the users, no message yet.
InitMessaging ==
    /\ users = Users
    /\ msg = <<>>
    /\ history = <<>>
    /\ notifications = SetToBag({WelcomeNotification(u) : u \in Users})
    /\ nextId = 1
    /\ inst = NoInstance
    /\ trail = [fresh |-> FALSE, olds |-> <<>>]
    /\ last = [op |-> "init", pk |-> Null, hit |-> FALSE]
    /\ result = NoResult

Init ==
    /\ InitMessaging
    /\ mw = NoRequest
    /\ retry = NoCall
    /\ table = <<>>
    /\ pager = NoGenerator

\* Message.objects.create(...) / MessageManager.create_message(...).
Create(s, r, c, p, max) ==
    /\ nextId <= max
    /\ s \in users /\ r \in users
    /\ p = Null \/ p \in DOMAIN msg
    /\ SaveInstance(NewInstance(s, r, c, p), "all")
    /\ trail' = [fresh |-> TRUE, olds |-> <<>>]
    /\ last' = [op |-> "create", pk |-> nextId, hit |-> FALSE]
    /\ result' = NoResult
    /\ UNCHANGED <<users, scripts>>

\* A message from user 1 to user 2, new or a reply to any stored message.
CreateMessage ==
    \E p \in {Null} \cup DOMAIN msg :
        Create(1, 2, InitialContent, p, MaxMessages)

\* A message between any two users, new or a reply to any stored message.
CreateBetweenUsers ==
    \E s \in Users, r \in Users, p \in {Null} \cup DOMAIN msg :
        Create(s, r, InitialContent, p, MaxMessages)

\* Message.objects.get(pk=id): the caller now holds a fresh instance.
Get ==
    \E id \in DOMAIN msg :
        /\ inst' = FromDb(id)
        /\ trail' = [fresh |-> FALSE, olds |-> <<>>]
        /\ last' = [op |-> "get", pk |-> id, hit |-> FALSE]
        /\ UNCHANGED <<users, msg, history, notifications, nextId, result,
                       scripts>>

\* message.content = c
SetContent ==
    \E c \in Contents :
        /\ inst # NoInstance
        /\ c # inst.content
        /\ inst' = [inst EXCEPT !.content = c]
        /\ last' = [op |-> "set_content", pk |-> inst.pk, hit |-> FALSE]
        /\ UNCHANGED <<users, msg, history, notifications, nextId, trail,
                       result, scripts>>

\* message.is_read = True
SetIsRead ==
    /\ inst # NoInstance
    /\ ~inst.is_read
    /\ inst' = [inst EXCEPT !.is_read = TRUE]
    /\ last' = [op |-> "set_is_read", pk |-> inst.pk, hit |-> FALSE]
    /\ UNCHANGED <<users, msg, history, notifications, nextId, trail, result,
                   scripts>>

\* The model stops counting edits at MaxEdits.
EditRoom(i) ==
    ContentDiffers(i) => i.edit_count < MaxEdits /\ Len(history) < MaxEdits

TrailAfter(i) ==
    IF ContentDiffers(i)
    THEN [trail EXCEPT !.olds = Append(@, msg[i.pk].content)]
    ELSE trail

\* The model stops at thread_depth MaxDepth.
DepthRoom(i) == ThreadingApplied(i).thread_depth <= MaxDepth

\* message.save()
Save ==
    /\ inst # NoInstance
    /\ ParentReadable(inst)
    /\ EditRoom(inst)
    /\ DepthRoom(inst)
    /\ SaveInstance(inst, "all")
    /\ trail' = TrailAfter(inst)
    /\ last' = [op |-> "save", pk |-> inst.pk, hit |-> ContentDiffers(inst)]
    /\ UNCHANGED <<users, result, scripts>>

\* message.mark_as_read(): is_read is set and
\* save(update_fields=['is_read', 'read_at']) called, unless already read.
MarkAsRead ==
    /\ inst # NoInstance
    /\ ~inst.is_read
    /\ ParentReadable(inst)
    /\ EditRoom(inst)
    /\ SaveInstance([inst EXCEPT !.is_read = TRUE], "read")
    /\ trail' = TrailAfter(inst)
    /\ last' = [op |-> "mark_as_read", pk |-> inst.pk,
                hit |-> ContentDiffers(inst)]
    /\ UNCHANGED <<users, result, scripts>>

\* message.parent_message = the stored message p, or None. The caller
\* picks no message that is the instance's own or one of its replies, so
\* the reply links stay a forest.
SetParent ==
    \E p \in {Null} \cup DOMAIN msg :
        /\ inst # NoInstance
        /\ p # inst.parent
        /\ p \notin WithReplies(msg, {inst.pk})
        /\ inst' = [inst EXCEPT !.parent = p,
                                !.pcache = IF p = Null THEN -1
                                           ELSE msg[p].thread_depth]
        /\ last' = [op |-> "set_parent", pk |-> inst.pk, hit |-> FALSE]
        /\ UNCHANGED <<users, msg, history, notifications, nextId, trail,
                       result, scripts>>

\* user.delete() for the User row u.
DeleteUser ==
    \E u \in users :
        LET d == UserDeleted(Db, u) IN
        /\ users' = users \ {u}
        /\ msg' = d.msg
        /\ history' = d.history
        /\ notifications' = d.notifications
        /\ last' = [op |-> "delete_user", pk |-> u,
                    hit |-> DOMAIN d.msg # DOMAIN msg /\ d.history # history]
        /\ UNCHANGED <<nextId, inst, trail, result, scripts>>

Next ==
    \/ CreateMessage
    \/ Get
    \/ SetContent
    \/ SetIsRead
    \/ Save
    \/ MarkAsRead
    \/ DeleteUser

Spec == Init /\ [][Next]_vars

\* Users deleted while messages between any two users, their edits and
\* their notifications exist.
NextDelete ==
    \/ CreateBetweenUsers
    \/ Get
    \/ SetContent
    \/ Save
    \/ DeleteUser

SpecDelete == Init /\ [][NextDelete]_vars

\* Messages, replies and saves of a message under another parent.
CreateReparentMessage ==
    \E p \in {Null} \cup DOMAIN msg :
        Create(1, 2, InitialContent, p, MaxReparentMessages)

NextReparent ==
    \/ CreateReparentMessage
    \/ Get
    \/ SetParent
    \/ Save

SpecReparent == Init /\ [][NextReparent]_vars

\* Threads of replies and the two thread queries.
CreateThreadMessage ==
    \E p \in {Null} \cup DOMAIN msg :
        Create(1, 2, InitialContent, p, MaxThreadMessages)

\* message.get_all_replies() and message.reply_count for a stored message.
QueryAllReplies ==
    \E id \in DOMAIN msg :
        /\ result' = [op |-> "get_all_replies", root |-> id,
                      rows |-> get_all_replies(id), count |-> reply_count(id)]
        /\ last' = [op |-> "query", pk |-> id, hit |-> FALSE]
        /\ UNCHANGED <<users, msg, history, notifications, nextId, inst,
                       trail, scripts>>

\* Message.get_thread_tree(id) for a stored message.
QueryThreadTree ==
    \E id \in DOMAIN msg :
        /\ result' = [op |-> "get_thread_tree", root |-> id,
                      rows |-> get_thread_tree(id)]
        /\ last' = [op |-> "query", pk |-> id, hit |-> FALSE]
        /\ UNCHANGED <<users, msg, history, notifications, nextId, inst,
                       trail, scripts>>

NextThread ==
    \/ CreateThreadMessage
    \/ QueryAllReplies
    \/ QueryThreadTree

SpecThread == Init /\ [][NextThread]_vars

\* Unread messages between any two users, the manager's mark_as_read and
\* the mark_thread_as_read view.
CreateUnreadMessage ==
    \E s \in Users, r \in Users, p \in {Null} \cup DOMAIN msg :
        Create(s, r, InitialContent, p, MaxUnreadMessages)

\* Message.unread.mark_as_read(u) and Message.unread.mark_as_read(u, ids),
\* ids any list of stored or unknown ids.
ManagerMarkAsRead ==
    \E u \in users :
        \E message_ids \in {NoMessageIds} \cup
                           {MessageIds(ids) : ids \in SUBSET (1..nextId)} :
            LET r == mark_as_read(u, message_ids) IN
            /\ msg' = r.msg
            /\ result' = [op |-> "unread.mark_as_read", user |-> u,
                          message_ids |-> message_ids, count |-> r.count]
            /\ last' = [op |-> "unread.mark_as_read", pk |-> u, hit |-> FALSE]
            /\ UNCHANGED <<users, history, notifications, nextId, inst,
                           trail, scripts>>

\* A GET or POST request of user u to mark_thread_as_read for a stored or
\* unknown thread_root_id.
MarkThreadAsRead ==
    \E u \in users, method \in {"GET", "POST"}, root \in 1..nextId :
        LET r == mark_thread_as_read(u, method, root) IN
        /\ msg' = r.msg
        /\ result' = [op |-> "mark_thread_as_read", user |-> u,
                      method |-> method, root |-> root,
                      response |-> r.response]
        /\ last' = [op |-> "mark_thread_as_read", pk |-> root, hit |-> FALSE]
        /\ UNCHANGED <<users, history, notifications, nextId, inst, trail,
                       scripts>>

NextUnread ==
    \/ CreateUnreadMessage
    \/ ManagerMarkAsRead
    \/ MarkThreadAsRead

SpecUnread == Init /\ [][NextUnread]_vars

\* A request for any path arrives at any time of day and is handled by
\* RestrictAccessByTimeMiddleware.
InitMiddleware ==
    /\ InitMessaging
    /\ mw \in [response : {"pending"}, path : Paths, time : Times]
    /\ retry = NoCall
    /\ table = <<>>
    /\ pager = NoGenerator

HandleRequest ==
    /\ mw.response = "pending"
    /\ mw' = [path |-> mw.path, time |-> mw.time] @@
             RestrictAccessByTime(mw.path, mw.time)
    /\ UNCHANGED <<messaging, retry, table, pager>>

NextMiddleware == HandleRequest

SpecMiddleware == InitMiddleware /\ [][NextMiddleware]_vars

\* A function wrapped with retry_on_failure(retries, delay) is called; no
\* other call of it is running.
RetryCall ==
    \E retries \in 0..MaxRetries, delay \in Delays :
        /\ retry.phase \in {"idle", "returned", "raised"}
        /\ retry' = NewCall(retries, delay)
        /\ UNCHANGED <<messaging, mw, table, pager>>

\* The wrapper invokes the function, which returns or raises.
RetryAttempt ==
    \E o \in Returns \cup Raises :
        /\ retry.phase = "loop"
        /\ retry' = Attempt(retry, o)
        /\ UNCHANGED <<messaging, mw, table, pager>>

\* time.sleep(current_delay) is over.
RetrySlept ==
    /\ retry.phase = "sleeping"
    /\ retry' = Slept(retry)
    /\ UNCHANGED <<messaging, mw, table, pager>>

NextRetry ==
    \/ RetryCall
    \/ RetryAttempt
    \/ RetrySlept

\* The interpreter goes on running a call that has begun, and a sleep ends.
SpecRetry ==
    Init /\ [][NextRetry]_vars /\ WF_vars(RetryAttempt) /\ WF_vars(RetrySlept)

\* user_data holds any number of rows up to MaxRows and is not changed.
InitPager ==
    /\ InitMessaging
    /\ mw = NoRequest
    /\ retry = NoCall
    /\ table \in {[i \in 1..n |-> i] : n \in 0..MaxRows}
    /\ pager = NoGenerator

\* for page in lazy_paginate(page_size): the generator is made once the
\* one before it is exhausted.
PagerCreate ==
    \E page_size \in 0..MaxPageSize :
        /\ pager.phase \in {"none", "done"}
        /\ pager' = NewGenerator(page_size)
        /\ UNCHANGED <<messaging, mw, retry, table>>

\* The consumer asks for the next page.
PagerNext ==
    /\ pager.phase \in {"created", "suspended"}
    /\ pager' = Resume(pager)
    /\ UNCHANGED <<messaging, mw, retry, table>>

NextPager ==
    \/ PagerCreate
    \/ PagerNext

\* The consumer's loop keeps asking until the generator ends.
SpecPager == InitPager /\ [][NextPager]_vars /\ WF_vars(PagerNext)

\* ================================================================ claims

IsSaveStep == last'.op \in {"save", "mark_as_read"}

\* Rows of bag B that satisfy Keep, counted with their copies.
CountWhere(B, Keep(_)) ==
    LET S == {x \in DOMAIN B : Keep(x)} IN
    IF S = {} THEN 0 ELSE BagCardinality([r \in S |-> B[r]])

\* C1: every Message.save() on a stored message whose in-memory content
\* differs from the stored content adds exactly one MessageHistory record,
\* for that message, holding the content stored just before the save and
\* the message's sender as edited_by.
C1_SaveLogsOneHistory ==
    [][ (IsSaveStep /\ last'.hit) =>
            history' = Append(history,
                              [message |-> inst.pk,
                               old_content |-> msg[inst.pk].content,
                               edited_by |-> msg[inst.pk].sender]) ]_vars

C1_Witness ==
    /\ last.op = "save" /\ last.hit
    /\ Len(history) >= 1
    /\ history[Len(history)].message = last.pk

HistoryOf(m) == SelectSeq(history, LAMBDA h : h.message = m)

\* C2: after n >= 1 successive content-changing saves of a message through
\* the instance that created it, the message has exactly n MessageHistory
\* records, its stored edit_count is n, and the i-th record holds the
\* content the message had just before the i-th of these saves.
C2_EditsCounted ==
    (trail.fresh /\ Stored(inst) /\ Len(trail.olds) >= 1) =>
        /\ Len(HistoryOf(inst.pk)) = Len(trail.olds)
        /\ msg[inst.pk].edit_count = Len(trail.olds)
        /\ \A k \in 1..Len(trail.olds) :
              HistoryOf(inst.pk)[k].old_content = trail.olds[k]

\* C3: a newly created message has edited = False, last_edited = null and
\* edit_count = 0; a content-changing save leaves the stored message with
\* edited = True, last_edited set and edit_count one higher than before;
\* and always edited <=> edit_count > 0 <=> last_edited is set.
C3_EditFields ==
    /\ [](last.op = "create" =>
            /\ ~msg[last.pk].edited
            /\ msg[last.pk].last_edited = "NULL"
            /\ msg[last.pk].edit_count = 0)
    /\ [](\A m \in DOMAIN msg :
            /\ msg[m].edited <=> msg[m].edit_count > 0
            /\ msg[m].edited <=> msg[m].last_edited # "NULL")
    /\ [][ (IsSaveStep /\ last'.hit) =>
              /\ msg'[inst.pk].edited
              /\ msg'[inst.pk].last_edited # "NULL"
              /\ msg'[inst.pk].edit_count = msg[inst.pk].edit_count + 1 ]_vars

\* C4: saving a stored message whose content equals the stored content adds
\* no MessageHistory record and no 'edit' Notification and leaves the
\* stored edited, last_edited and edit_count as they were.
C4_NoEditNoTrace ==
    [][ (IsSaveStep /\ Stored(inst) /\ ~last'.hit) =>
            /\ history' = history
            /\ notifications' = notifications
            /\ msg'[inst.pk].edited = msg[inst.pk].edited
            /\ msg'[inst.pk].last_edited = msg[inst.pk].last_edited
            /\ msg'[inst.pk].edit_count = msg[inst.pk].edit_count ]_vars

Involves(row, u) == row.sender = u \/ row.receiver = u

\* C7: once a user is deleted there is no Message sent or received by the
\* user, no Notification addressed to the user and no MessageHistory edited
\* by the user; and the deletion leaves no Notification whose message was
\* sent or received by the user.
C7_UserDataGone ==
    /\ [](\A u \in Users \ users :
            /\ \A m \in DOMAIN msg : ~Involves(msg[m], u)
            /\ \A n \in DOMAIN notifications : n.user # u
            /\ \A k \in 1..Len(history) : history[k].edited_by # u)
    /\ [][ \A u \in users \ users' :
              \A n \in DOMAIN notifications' :
                  n.message \in DOMAIN msg => ~Involves(msg[n.message], u) ]_vars

C7_Witness ==
    /\ last.op = "delete_user" /\ last.hit
    /\ DOMAIN msg # {}
    /\ Len(history) >= 1

\* C8: every stored message is a thread starter exactly when it has no
\* parent, has thread_depth 0 when it has no parent, and otherwise has its
\* parent's stored thread_depth plus one.
C8_ThreadFields ==
    \A m \in DOMAIN msg :
        /\ msg[m].is_thread_starter <=> msg[m].parent = Null
        /\ msg[m].parent = Null => msg[m].thread_depth = 0
        /\ msg[m].parent # Null =>
              msg[m].thread_depth = msg[msg[m].parent].thread_depth + 1

\* Parent links from message m up to root, -1 when root is not m or one of
\* its ancestors.
RECURSIVE LinksUp(_, _, _)
LinksUp(m, root, fuel) ==
    IF m = root THEN 0
    ELSE IF fuel = 0 \/ m \notin DOMAIN msg \/ msg[m].parent = Null THEN -1
    ELSE LET d == LinksUp(msg[m].parent, root, fuel - 1) IN
         IF d < 0 THEN -1 ELSE d + 1

Level(m, root) == LinksUp(m, root, Cardinality(DOMAIN msg))

\* The direct and transitive replies to root.
RepliesUnder(root) == {m \in DOMAIN msg : Level(m, root) >= 1}

\* C9: get_all_replies() returns exactly the direct and transitive replies
\* to the message, at any depth, and reply_count is their number.
C9_AllReplies ==
    result.op = "get_all_replies" =>
        /\ result.rows = RepliesUnder(result.root)
        /\ result.count = Cardinality(RepliesUnder(result.root))

\* C10: get_thread_tree(root) returns exactly one row for the root and for
\* every message reachable from it by reply links, at any depth, no row for
\* any other message, and each row's level is the number of parent links
\* between its message and the root.
C10_ThreadTree ==
    result.op = "get_thread_tree" =>
        /\ \A m \in DOMAIN msg :
              Cardinality({r \in result.rows : r.id = m})
                  = IF Level(m, result.root) >= 0 THEN 1 ELSE 0
        /\ \A r \in result.rows :
              r.id \in DOMAIN msg /\ r.level = Level(r.id, result.root)

C10_Witness ==
    /\ result.op = "get_thread_tree"
    /\ \E r \in result.rows : r.level > ReplyLookupDepth

\* The table after the rows of target were marked read and nothing else.
OnlyMarked(target) ==
    [x \in DOMAIN msg |->
        IF x \in target THEN [msg[x] EXCEPT !.is_read = TRUE] ELSE msg[x]]

\* C11: Message.unread.mark_as_read(user, message_ids) with a list, empty
\* or not, sets is_read only on the unread messages addressed to user whose
\* id is in the list; without message_ids it marks all unread messages
\* addressed to user; every other row is unchanged and the number returned
\* is the number of rows marked.
C11_ManagerMarksListed ==
    [][last'.op = "unread.mark_as_read" =>
        LET u == result'.user
            message_ids == result'.message_ids
            target == {x \in DOMAIN msg :
                          /\ msg[x].receiver = u
                          /\ ~msg[x].is_read
                          /\ message_ids.given => x \in message_ids.ids}
        IN  /\ msg' = OnlyMarked(target)
            /\ result'.count = Cardinality(target)]_vars

\* C12: a POST to mark_thread_as_read by the sender or receiver of the root
\* marks exactly the unread messages addressed to that user among the root
\* and its transitive replies; any other request changes no message.
C12_ThreadMarkedRead ==
    [][last'.op = "mark_thread_as_read" =>
        LET u == result'.user
            root == result'.root
            allowed == /\ root \in DOMAIN msg
                       /\ result'.method = "POST"
                       /\ u \in {msg[root].sender, msg[root].receiver}
            target == IF allowed
                      THEN {x \in {root} \cup RepliesUnder(root) :
                               msg[x].receiver = u /\ ~msg[x].is_read}
                      ELSE {}
        IN  msg' = OnlyMarked(target)]_vars

\* C13: for a path that starts with /api/chats/ or /chats/ the middleware
\* answers 403 without calling the next handler when 21:00 <= t or
\* t < 06:00 and passes the request on otherwise (exactly 06:00 is
\* allowed); any other path is always passed on.
C13_TimeWindow ==
    mw.response \notin {"none", "pending"} =>
        LET t == mw.time
            chat == \/ Len(mw.path) >= 3 /\ mw.path[1] = "api"
                                         /\ mw.path[2] = "chats"
                    \/ Len(mw.path) >= 2 /\ mw.path[1] = "chats"
            restricted == \/ TimeLE(Time(21, 0), t)
                          \/ ~TimeLE(Time(6, 0), t)
        IN  IF chat /\ restricted
            THEN mw.response = "403" /\ ~mw.forwarded
            ELSE mw.response = "get_response" /\ mw.forwarded

\* What C14 says of a call r of the wrapped function: at most retries + 1
\* invocations, none after one that returned, whose result is returned;
\* when the call is over and every invocation raised a retriable
\* exception, exactly retries + 1 invocations and the last one's exception
\* raised.
RetryBounded(r) ==
    LET n == Len(r.calls) IN
    /\ n <= r.retries + 1
    /\ \A i \in 1..(n - 1) : r.calls[i] \notin Returns
    /\ (n > 0 /\ r.calls[n] \in Returns) =>
           r.phase = "returned" /\ r.out = r.calls[n]
    /\ r.phase = "returned" => n > 0 /\ r.calls[n] \in Returns
    /\ (r.phase \in {"returned", "raised"}
            /\ \A i \in 1..n : r.calls[i] \in Retriable) =>
           /\ n = r.retries + 1
           /\ r.phase = "raised"
           /\ r.out = r.calls[n]

RetryTerminates ==
    retry.phase \in {"loop", "sleeping"} ~> retry.phase \in {"returned", "raised"}

\* C14 as stated: for retries = n >= 0 and any delay, the wrapped function is
\* invoked at most n + 1 times per call, the first successful invocation's
\* result is returned with no further invocation, n + 1 failing invocations
\* raise the last exception, and the call terminates.
C14_RetryAnyDelay ==
    /\ [](retry.phase # "idle" => RetryBounded(retry))
    /\ RetryTerminates

\* C14 amended: the same for retries = n >= 0 and a delay d >= 0.
C14_RetryBounded ==
    /\ [](retry.phase # "idle" /\ retry.delay >= 0 => RetryBounded(retry))
    /\ RetryTerminates

\* A call with a delay >= 0 and at least one retry ended after every
\* invocation failed.
C14_Witness ==
    /\ retry.phase = "raised"
    /\ retry.delay >= 0
    /\ retry.retries >= 1
    /\ Len(retry.calls) = retry.retries + 1
    /\ \A i \in 1..Len(retry.calls) : retry.calls[i] \in Retriable

\* The rows of user_data from position from to position to.
Rows(from, to) == [j \in 1..(to - from + 1) |-> table[from + j - 1]]

\* The pages put one after the other.
RECURSIVE Flatten(_)
Flatten(pages) ==
    IF pages = <<>> THEN <<>> ELSE Head(pages) \o Flatten(Tail(pages))

\* The generator g has fetched lazily and in order: the i-th call of
\* paginate_users had offset (i - 1) * page_size, the consumer holding k
\* pages has cost k calls, each page is the non-empty slice at its offset,
\* and the generator is over exactly when one more call found no row.
LazyInOrder(g) ==
    LET k == Len(g.yielded)
        n == Len(table)
    IN  /\ \A i \in 1..Len(g.calls) : g.calls[i] = (i - 1) * g.page_size
        /\ g.phase \in {"created", "suspended"} => Len(g.calls) = k
        /\ g.phase = "created" => k = 0
        /\ \A i \in 1..k :
               /\ g.yielded[i] # <<>>
               /\ LET end == IF i * g.page_size < n
                             THEN i * g.page_size ELSE n
                  IN  g.yielded[i] = Rows((i - 1) * g.page_size + 1, end)
        /\ g.phase = "done" =>
               /\ Len(g.calls) = k + 1
               /\ k * g.page_size >= n \/ g.page_size = 0
               /\ g.page_size >= 1 => Flatten(g.yielded) = table

\* C15: lazy_paginate fetches pages on demand and in order (k pages
\* received, k calls of paginate_users, offsets 0, page_size, ...), ends at
\* the first empty page, and for page_size >= 1 over an unchanged table
\* terminates having yielded every row exactly once in table order.
C15_LazyPaginate ==
    /\ [](pager.phase # "none" => LazyInOrder(pager))
    /\ (pager.phase \in {"created", "suspended"} /\ pager.page_size >= 1)
           ~> (pager.phase = "done")

\* A generator ended after several pages, the last of them a short one.
C15_Witness ==
    /\ pager.phase = "done"
    /\ pager.page_size >= 2
    /\ Len(pager.yielded) >= 2
    /\ Len(pager.yielded[Len(pager.yielded)]) < pager.page_size

====
